---- MODULE Spec2Model ----
(***************************************************************************)
(* Cycle-accurate model of luna/gateware/usb/usb2/descriptor.py:           *)
(* GetDescriptorHandler (the dispatch router) over one                     *)
(* USBDescriptorStreamGenerator per registered descriptor.                 *)
(*                                                                         *)
(* One state of the model is one cycle of the "usb" clock domain: the      *)
(* values of the input signals in that cycle, the registers, and the       *)
(* combinational outputs those two determine.  Every action is one clock   *)
(* edge: it latches the registers from the current cycle and presents the  *)
(* next cycle's inputs.                                                    *)
(*                                                                         *)
(* ConstantStreamGenerator (luna/gateware/stream/generator.py) is not part *)
(* of the sources at hand; the stream source is modelled from section 4.1  *)
(* of the specification.                                                   *)
(***************************************************************************)
EXTENDS Integers, Sequences, FiniteSets, TLC

\* ------------------------------------------------------------------ bounds

\* Largest requested length (the `length` input) the caller presents.
MaxRequestedLength == 6

\* Largest start_position the caller presents.
MaxStartPosition == 6

\* The max_packet_length constructor argument of the modelled instance.
MaxPacketLength == 3

\* Saturation point of the testbench's count of withheld-ready cycles.
MaxDelay == 2

\* Largest start_position an unconstrained or re-activating caller
\* presents.
MaxAnyStartPosition == 1

\* --------------------------------------------------------- signal widths

\* self.length = Signal(16), and the elaborated `length = Signal(16)`.
LengthWidth == 16

\* self.start_position = Signal(11)
StartPositionWidth == 11

Pow2(n) == 2 ^ n

Min(a, b) == IF a <= b THEN a ELSE b

Max(a, b) == IF a >= b THEN a ELSE b

\* -------------------------------------------------------- descriptor table

\* The descriptor collection handed to the constructor, as the triples
\* (type_number, index, raw_descriptor) its iteration yields.  One payload
\* fits a packet, one is longer than max_packet_length.
Descriptors ==
    << << 1, 0, << 18, 1 >> >>,
       << 33, 0, << 9, 33, 1, 0, 50 >> >> >>

Generators == 1 .. Len(Descriptors)

Payload(k) == Descriptors[k][3]

PayloadLength(k) == Len(Payload(k))

\* type_number << 8 | index; index is an 8-bit field, so the OR adds.
CaseValue(k) == Descriptors[k][1] * 256 + Descriptors[k][2]

\* A (type, index) that is not registered: (STRING, 100), as in
\* test_unavailable_descriptor.
UnavailableValue == 3 * 256 + 100

Values == { CaseValue(k) : k \in Generators } \cup { UnavailableValue }

MutSwitchFirst(v) == 1

\* m.Switch(self.value): the generator whose Case matches, 0 for the
\* default Case.
Switch(v) ==
    IF \E k \in Generators : CaseValue(k) = v
    THEN CHOOSE k \in Generators :
            /\ CaseValue(k) = v
            /\ \A j \in Generators : CaseValue(j) = v => k <= j
    ELSE 0

\* ------------------------------------------------------------ chunk bound

\* words_remaining = self.length - self.start_position: the difference of
\* two unsigned signals is an unsigned signal one bit wider than the wider
\* operand, so a negative difference wraps.
words_remaining(len, pos) ==
    (len - pos) % Pow2(Max(LengthWidth, StartPositionWidth) + 1)

MutChunkNoClamp(len, pos) == words_remaining(len, pos) % Pow2(LengthWidth)

MutChunkOffByOne(len, pos) ==
    IF words_remaining(len, pos) <= MaxPacketLength + 1
    THEN words_remaining(len, pos) % Pow2(LengthWidth)
    ELSE MaxPacketLength + 1

MutChunkIgnoresStart(len, pos) ==
    IF len <= MaxPacketLength THEN len ELSE MaxPacketLength

\* The elaborated `length` signal, forwarded to every generator.max_length.
ChunkLength(len, pos) ==
    IF words_remaining(len, pos) <= MaxPacketLength
    THEN words_remaining(len, pos) % Pow2(LengthWidth)
    ELSE MaxPacketLength

\* ---------------------------------------------------------- stream source

\* State of one stream source: the half-open range [begin, limit) of the
\* payload the current activation covers and the cursor within it.
IdleSource == [begin |-> 0, cursor |-> 0, limit |-> 0]

SourceValid(s) == s.cursor < s.limit

\* Effective count = min(max_length, payload_length - start_offset),
\* zero when start_offset >= payload_length.
EffectiveCount(L, max_len, start_offset) ==
    IF start_offset >= L THEN 0 ELSE Min(max_len, L - start_offset)

\* The stream a source offers in a cycle.
SourceStream(s, data) ==
    IF SourceValid(s)
    THEN [valid |-> TRUE, payload |-> data[s.cursor + 1],
          first |-> s.cursor = s.begin, last |-> s.cursor = s.limit - 1]
    ELSE [valid |-> FALSE, payload |-> 0, first |-> FALSE, last |-> FALSE]

\* The source's state after a clock edge.
SourceNext(s, data, activate, max_len, start_offset, rdy) ==
    IF activate
    THEN IF EffectiveCount(Len(data), max_len, start_offset) = 0
         THEN IdleSource
         ELSE [begin  |-> start_offset,
               cursor |-> start_offset,
               limit  |-> start_offset
                          + EffectiveCount(Len(data), max_len, start_offset)]
    ELSE IF SourceValid(s) /\ rdy
         THEN IF s.cursor + 1 = s.limit
              THEN IdleSource
              ELSE [s EXCEPT !.cursor = s.cursor + 1]
         ELSE s

\* ------------------------------------------------------------------ router

NoStream == [valid |-> FALSE, payload |-> 0, first |-> FALSE, last |-> FALSE]

MutReadyAlways(k, v, rdy) == Switch(v) = k

MutReadyUnselected(k, v, rdy) == rdy

\* generator.stream.attach(self.tx), ready direction: the selected
\* generator sees tx.ready, every other one sees ready deasserted.
GeneratorReady(k, v, rdy) == Switch(v) = k /\ rdy

MutTxFirstAlways(v, gens) ==
    IF Switch(v) = 0
    THEN NoStream
    ELSE [SourceStream(gens[Switch(v)], Payload(Switch(v)))
            EXCEPT !.first = SourceValid(gens[Switch(v)])]

\* generator.stream.attach(self.tx), data direction: tx carries the
\* selected generator's stream, and nothing in the default Case.
TxOut(v, gens) ==
    IF Switch(v) = 0
    THEN NoStream
    ELSE SourceStream(gens[Switch(v)], Payload(Switch(v)))

MutStallAnyStart(v, st) == st

MutStallLevel(v, st) == Switch(v) = 0

\* m.d.comb += self.stall.eq(self.start), in the default Case only.
StallOut(v, st) == Switch(v) = 0 /\ st

MutStartSticky(gs, v, st) ==
    [k \in Generators |-> IF Switch(v) = k THEN st \/ gs[k] ELSE gs[k]]

MutStartBroadcast(gs, v, st) ==
    [k \in Generators |-> IF Switch(v) # 0 THEN st ELSE gs[k]]

MutStartOnDefault(gs, v, st) ==
    [k \in Generators |-> IF Switch(v) = k \/ Switch(v) = 0 THEN st ELSE gs[k]]

\* m.d.usb += generator.start.eq(self.start), inside the generator's Case:
\* the register follows start while its Case is selected and holds
\* otherwise.
NextGeneratorStart(gs, v, st) ==
    [k \in Generators |-> IF Switch(v) = k THEN st ELSE gs[k]]

MutGeneratorsIgnoreReady(gens, gs, v, len, pos, rdy) ==
    [k \in Generators |->
        SourceNext(gens[k], Payload(k), gs[k], ChunkLength(len, pos), pos,
                   Switch(v) = k)]

MutGeneratorsNoRestart(gens, gs, v, len, pos, rdy) ==
    [k \in Generators |->
        SourceNext(gens[k], Payload(k), gs[k] /\ ~SourceValid(gens[k]),
                   ChunkLength(len, pos), pos, GeneratorReady(k, v, rdy))]

\* Every generator gets max_length = length and start_position =
\* self.start_position, and its own start register as activate.
NextGenerators(gens, gs, v, len, pos, rdy) ==
    [k \in Generators |->
        SourceNext(gens[k], Payload(k), gs[k], ChunkLength(len, pos), pos,
                   GeneratorReady(k, v, rdy))]

\* ------------------------------------------------------------------- state

VARIABLES
    value,            \* I: value[16], type << 8 | index
    length,           \* I: length[16]
    start_position,   \* I: start_position[11]
    start,            \* I: start strobe
    ready,            \* I: tx.ready
    generator_start,  \* generator.start register of each generator
    generators,       \* state of each stream source
    max_length,       \* the elaborated `length`, forwarded as max_length
    tx,               \* O: tx.valid, tx.payload, tx.first, tx.last
    stall,            \* O: stall
    started,          \* testbench: a start strobe has been issued
    frames,           \* testbench: frames accepted since the last strobe
    stalls,           \* testbench: stall cycles since the last strobe
    delay_ready,      \* testbench: cycles a valid frame was kept waiting
    stale             \* testbench: frames accepted before a restart took hold

vars == << value, length, start_position, start, ready, generator_start,
           generators, max_length, tx, stall, started, frames, stalls,
           delay_ready, stale >>

\* No strobe has interrupted a stream, and no frame of `frames` was accepted
\* in the strobe cycle or in the cycle the start register is set.
NoStale == [interrupted |-> FALSE, strobe |-> 0, armed |-> 0]

Lengths == 0 .. MaxRequestedLength

StartPositions == 0 .. MaxStartPosition

\* After reset every signal and register is 0 and every source is idle.
Init ==
    /\ value = 0
    /\ length = 0
    /\ start_position = 0
    /\ start = FALSE
    /\ ready = FALSE
    /\ generator_start = [k \in Generators |-> FALSE]
    /\ generators = [k \in Generators |-> IdleSource]
    /\ max_length = ChunkLength(0, 0)
    /\ tx = TxOut(0, [k \in Generators |-> IdleSource])
    /\ stall = StallOut(0, FALSE)
    /\ started = FALSE
    /\ frames = << >>
    /\ stalls = 0
    /\ delay_ready = 0
    /\ stale = NoStale

\* The frame the consumer accepts in the current cycle, if any.
Accepted == tx.valid /\ ready

Frame == [payload |-> tx.payload, first |-> tx.first, last |-> tx.last]

\* One edge of the usb clock: the registers latch from the current cycle,
\* the inputs of the next cycle are v, len, pos, st, rdy, and the
\* combinational outputs follow.
ClockEdge(v, len, pos, st, rdy) ==
    /\ generator_start' = NextGeneratorStart(generator_start, value, start)
    /\ generators' = NextGenerators(generators, generator_start, value,
                                    length, start_position, ready)
    /\ value' = v
    /\ length' = len
    /\ start_position' = pos
    /\ start' = st
    /\ ready' = rdy
    /\ max_length' = ChunkLength(len, pos)
    /\ tx' = TxOut(v, generators')
    /\ stall' = StallOut(v, st)

\* No request is in flight: start is low, no generator is armed, no source
\* is streaming.
Quiet ==
    /\ ~start
    /\ \A k \in Generators : ~generator_start[k]
    /\ \A k \in Generators : ~SourceValid(generators[k])

\* The caller strobes start for a new request (_test_descriptor and
\* _test_stall: value, length, start_position, ready and start are set
\* together), once the previous response is over.
StartRequest(v, len, pos, rdy) ==
    /\ Quiet
    /\ ClockEdge(v, len, pos, TRUE, rdy)
    /\ started' = TRUE
    /\ frames' = << >>
    /\ stalls' = IF stall' THEN 1 ELSE 0
    /\ delay_ready' = 0
    /\ stale' = NoStale

\* The caller drops start and holds the request while the consumer drives
\* ready as it likes; the testbench records what it sees.
Hold(rdy) ==
    /\ ClockEdge(value, length, start_position, FALSE, rdy)
    /\ started' = started
    /\ frames' = IF Accepted THEN Append(frames, Frame) ELSE frames
    /\ stalls' = IF stall' THEN stalls + 1 ELSE stalls
    /\ delay_ready' = IF tx.valid /\ ~ready
                      THEN Min(delay_ready + 1, MaxDelay)
                      ELSE delay_ready
    /\ stale' = IF Accepted /\ start
                THEN [stale EXCEPT !.strobe = 1]
                ELSE IF Accepted /\ \E k \in Generators : generator_start[k]
                     THEN [stale EXCEPT !.armed = 1]
                     ELSE stale

Next ==
    \/ \E v \in Values, len \in Lengths, pos \in StartPositions,
          rdy \in BOOLEAN : StartRequest(v, len, pos, rdy)
    \/ \E rdy \in BOOLEAN : Hold(rdy)

Spec == Init /\ [][Next]_vars

\* The consumer keeps coming back to ready: a cycle with tx.ready high is
\* always possible and is not put off for ever.
SpecFair == Spec /\ WF_vars(Hold(TRUE))

\* The caller abandons the response under way: it strobes start again for
\* the same descriptor, with a new length and start_position, while that
\* descriptor's stream is incomplete.
Reactivate(len, pos, rdy) ==
    /\ ~start
    /\ \A k \in Generators : ~generator_start[k]
    /\ Switch(value) # 0
    /\ SourceValid(generators[Switch(value)])
    /\ ClockEdge(value, len, pos, TRUE, rdy)
    /\ started' = TRUE
    /\ frames' = << >>
    /\ stalls' = 0
    /\ delay_ready' = 0
    /\ stale' = [NoStale EXCEPT !.interrupted = TRUE]

\* The requested lengths of such a caller: nothing, or a full packet.
AnyLengths == { 0, MaxPacketLength }

AnyStartPositions == 0 .. MaxAnyStartPosition

NextRestart ==
    \/ \E v \in Values, len \in AnyLengths, pos \in AnyStartPositions,
          rdy \in BOOLEAN : StartRequest(v, len, pos, rdy)
    \/ \E len \in AnyLengths, pos \in AnyStartPositions, rdy \in BOOLEAN :
          Reactivate(len, pos, rdy)
    \/ \E rdy \in BOOLEAN : Hold(rdy)

SpecRestart == Init /\ [][NextRestart]_vars

\* A caller and a consumer under no discipline: any value, length,
\* start_position, start and ready in every cycle.  No testbench follows
\* the response.
AnyCycle(v, len, pos, st, rdy) ==
    /\ ClockEdge(v, len, pos, st, rdy)
    /\ UNCHANGED << started, frames, stalls, delay_ready, stale >>

NextAny ==
    \E v \in Values, len \in AnyLengths, pos \in AnyStartPositions,
       st \in BOOLEAN, rdy \in BOOLEAN : AnyCycle(v, len, pos, st, rdy)

SpecAny == Init /\ [][NextAny]_vars

\* The response to the last request is complete.
Done == started /\ Quiet

TypeOK ==
    /\ value \in Values \cup {0}
    /\ length \in Lengths
    /\ start_position \in StartPositions
    /\ start \in BOOLEAN
    /\ ready \in BOOLEAN
    /\ generator_start \in [Generators -> BOOLEAN]
    /\ \A k \in Generators :
          /\ generators[k].begin <= generators[k].cursor
          /\ generators[k].cursor <= generators[k].limit
          /\ generators[k].limit <= PayloadLength(k)
    /\ max_length \in 0 .. MaxPacketLength
    /\ tx.valid \in BOOLEAN
    /\ stall \in BOOLEAN
    /\ Len(frames) <= MaxPacketLength
    /\ stalls \in 0 .. 1
    /\ delay_ready \in 0 .. MaxDelay
    /\ stale = NoStale

\* ----------------------------------------------------------- expectations

Selected == Switch(value)

Registered == Selected # 0

IsPrefix(s, t) ==
    /\ Len(s) <= Len(t)
    /\ \A i \in 1 .. Len(s) : s[i] = t[i]

\* The n frames that carry bytes from .. from + n - 1 (0-based) of
\* generator k's payload, first on the first and last on the last.
FramesOf(k, from, n) ==
    [i \in 1 .. n |->
        [payload |-> Payload(k)[from + i], first |-> i = 1, last |-> i = n]]

\* The frames the core emits for the request (v, len, pos) when the
\* consumer accepts every frame at once: n cycles from the strobe cycle on,
\* with ready high throughout.
RECURSIVE ImmediateRun(_, _, _, _, _, _, _, _)
ImmediateRun(n, gs, gens, v, len, pos, st, acc) ==
    IF n = 0
    THEN acc
    ELSE ImmediateRun(
            n - 1,
            NextGeneratorStart(gs, v, st),
            NextGenerators(gens, gs, v, len, pos, TRUE),
            v, len, pos, FALSE,
            IF TxOut(v, gens).valid
            THEN Append(acc, [payload |-> TxOut(v, gens).payload,
                              first   |-> TxOut(v, gens).first,
                              last    |-> TxOut(v, gens).last])
            ELSE acc)

ImmediateFrames(v, len, pos) ==
    ImmediateRun(MaxPacketLength + 3,
                 [k \in Generators |-> FALSE],
                 [k \in Generators |-> IdleSource],
                 v, len, pos, TRUE, << >>)

\* ------------------------------------------------------------------ claims

\* C1 (as stated): a request for a registered descriptor D of payload
\* length L with start_offset = 0 and requested_length = L yields exactly L
\* accepted frames, is_first on frame 0 only, is_last on frame L-1 only,
\* carrying D's payload in order, also when L exceeds max_packet_length.
C1_WholeDescriptorAsStated ==
    (Done /\ Registered /\ start_position = 0
          /\ length = PayloadLength(Selected))
        => frames = FramesOf(Selected, 0, PayloadLength(Selected))

\* C1 (amended): such a request yields exactly min(L, max_packet_length)
\* accepted frames, is_first on frame 0 only, is_last on the last of them
\* only, carrying the first min(L, max_packet_length) bytes of D's payload
\* in order; while the response is under way the accepted frames are a
\* prefix of these.
C1_WholeDescriptorUpToPacket ==
    (started /\ Registered /\ start_position = 0
             /\ length = PayloadLength(Selected))
        => /\ IsPrefix(frames,
                       FramesOf(Selected, 0,
                                Min(PayloadLength(Selected), MaxPacketLength)))
           /\ Done => Len(frames)
                        = Min(PayloadLength(Selected), MaxPacketLength)

C1_Witness ==
    /\ Done /\ Registered /\ start_position = 0
    /\ length = PayloadLength(Selected)
    /\ PayloadLength(Selected) > MaxPacketLength
    /\ Len(frames) = MaxPacketLength
    /\ frames[Len(frames)].last

\* The count C2 names for the current request.
C2_ExpectedCount ==
    Min(Min(PayloadLength(Selected) - start_position,
            length - start_position),
        MaxPacketLength)

\* C2: for a registered descriptor of payload length L and a request with
\* 0 <= start_offset < L and requested_length >= start_offset, the number
\* of accepted frames is min(L - start_offset, requested_length -
\* start_offset, max_packet_length) and frame i carries
\* payload[start_offset + i].
C2_OffsetAndLength ==
    (started /\ Registered /\ start_position < PayloadLength(Selected)
             /\ length >= start_position)
        => /\ Len(frames) <= C2_ExpectedCount
           /\ \A i \in 1 .. Len(frames) :
                 frames[i].payload = Payload(Selected)[start_position + i]
           /\ Done => Len(frames) = C2_ExpectedCount

C2_Witness ==
    /\ Done /\ Registered
    /\ start_position > 0
    /\ length < PayloadLength(Selected)
    /\ length - start_position < MaxPacketLength
    /\ Len(frames) >= 2

\* C3: for a (type, index) that is not registered, a start strobe yields
\* exactly one stall pulse and no frame, and tx.valid is never asserted,
\* whatever requested_length and start_offset are.
C3_UnavailableStalls ==
    (started /\ ~Registered)
        => /\ stalls = 1
           /\ frames = << >>
           /\ ~tx.valid

C3_Witness ==
    /\ Done /\ ~Registered
    /\ length > 0 /\ start_position > length
    /\ stalls = 1 /\ ~stall

C5_ChunkBoundClamped ==
    max_length = Min(Max(length - start_position, 0), MaxPacketLength)

\* C6: backpressure idempotence: whatever the consumer's ready schedule,
\* the frames accepted for a request are those accepted when every frame
\* is taken at once, payload, is_first and is_last alike; withholding
\* ready only delays them.
C6_BackpressureIdempotent ==
    started
        => /\ IsPrefix(frames, ImmediateFrames(value, length, start_position))
           /\ Done => frames
                        = ImmediateFrames(value, length, start_position)

C6_Witness ==
    /\ Done /\ Registered
    /\ delay_ready >= 2
    /\ Len(frames) >= 2
    /\ frames = ImmediateFrames(value, length, start_position)

C8_AtMostOnePacket ==
    Len(frames) + (IF tx.valid THEN 1 ELSE 0) <= MaxPacketLength

C8_Witness ==
    /\ Done /\ Registered
    /\ length < start_position
    /\ Len(frames) = MaxPacketLength

\* C9: backpressure hold: when a valid frame is offered while ready is low
\* and no new start strobe follows, the source's cursor stays where it is,
\* the next cycle offers the same payload byte with the same is_first and
\* is_last and valid asserted, and no frame is recorded as accepted.
C9_BackpressureHold ==
    [][(tx.valid /\ ~ready /\ ~start')
          => /\ generators' = generators
             /\ tx' = tx
             /\ tx'.valid
             /\ frames' = frames]_vars

C9_Witness ==
    /\ delay_ready >= 1
    /\ tx.valid /\ ~ready
    /\ Len(frames) >= 1
    /\ ~tx.first

\* C10: framing: among the frames accepted for one activation is_first is
\* set on the first frame and on no other, is_last on the last frame of
\* the response and on no other, also for chunks cut short by
\* requested_length or max_packet_length; an empty response carries no
\* marker.
C10_Framing ==
    /\ \A i \in 1 .. Len(frames) :
          /\ frames[i].first <=> i = 1
          /\ frames[i].last => (i = Len(frames) /\ ~tx.valid)
    /\ (Done /\ frames # << >>) => frames[Len(frames)].last
    /\ tx.first => (tx.valid /\ frames = << >>)
    /\ tx.last => tx.valid
    /\ ~tx.valid => (~tx.first /\ ~tx.last)

C10_Witness ==
    /\ Done /\ Registered
    /\ Len(frames) >= 2
    /\ Len(frames) < MaxPacketLength
    /\ start_position + Len(frames) < PayloadLength(Selected)
    /\ frames[1].first /\ frames[Len(frames)].last

\* C11: completion: after a start strobe that matches a registered
\* descriptor, with the consumer ready again and again and no further
\* strobe, every frame of the response is eventually accepted; the cycle
\* after the last frame is accepted tx.valid is low and the core idle, and
\* it stays idle until the next strobe; after an unmatched strobe the core
\* is idle in the very next cycle.
C11_Completion ==
    /\ (start /\ Registered)
          ~> (Done /\ frames
                        = ImmediateFrames(value, length, start_position))
    /\ [][(Accepted /\ tx.last) => (~tx'.valid /\ Quiet')]_vars
    /\ [][(Quiet /\ ~start') => (~tx'.valid /\ Quiet')]_vars
    /\ [][(start /\ ~Registered) => Quiet']_vars

C11_Witness ==
    /\ Done /\ Registered
    /\ delay_ready >= 1
    /\ Len(frames) = MaxPacketLength
    /\ frames[Len(frames)].last
    /\ ~tx.valid

Busy == { k \in Generators :
            generator_start[k] \/ SourceValid(generators[k]) }

\* C13: with non-overlapping activations at most one source is armed or
\* streaming in any cycle, it is the source the request's (type, index)
\* selects, tx carries that source's stream, and the frames accepted since
\* the strobe are that source's payload bytes in order, each once.
C13_SingleSource ==
    /\ Cardinality(Busy) <= 1
    /\ \A k \in Busy : k = Selected
    /\ tx.valid
          => tx = SourceStream(generators[Selected], Payload(Selected))
    /\ (started /\ Registered)
          => \A i \in 1 .. Len(frames) :
                frames[i].payload = Payload(Selected)[start_position + i]
    /\ (started /\ ~Registered) => frames = << >>

C13_Witness ==
    /\ Busy = { Selected }
    /\ generators[Selected].cursor = generators[Selected].begin + 2
    /\ Len(frames) = 2
    /\ start_position > 0

\* The frames accepted from the second cycle after the strobe on.
FreshFrames == SubSeq(frames, stale.strobe + stale.armed + 1, Len(frames))

\* C14 (as stated): a start strobe for a descriptor whose stream is
\* incomplete discards the unsent bytes, and the frames accepted after it
\* are exactly those of a fresh activation with the new parameters.
C14_ReactivationAsStated ==
    (Done /\ stale.interrupted)
        => SubSeq(frames, stale.strobe + 1, Len(frames))
             = ImmediateFrames(value, length, start_position)

\* C14 (amended): such a strobe restarts the stream two clock edges later,
\* since generator.start is registered: at most one frame of the
\* interrupted stream is still accepted in the strobe cycle and one in the
\* cycle after it; the frames accepted from then on are exactly those of a
\* fresh activation with the new start_offset and max_length.
C14_ReactivationAfterTwoEdges ==
    (started /\ stale.interrupted)
        => /\ stale.strobe + stale.armed <= Len(frames)
           /\ IsPrefix(FreshFrames,
                       ImmediateFrames(value, length, start_position))
           /\ Done => FreshFrames
                        = ImmediateFrames(value, length, start_position)

C14_Witness ==
    /\ Done /\ stale.interrupted
    /\ stale.strobe = 1 /\ stale.armed = 1
    /\ start_position > 0
    /\ Len(FreshFrames) >= 2
    /\ FreshFrames[1].first

\* C15: in every cycle in which value is the key of a registered source,
\* tx.valid, tx.payload, tx.first and tx.last are that source's outputs of
\* the same cycle and the source's ready is tx.ready: short of an
\* activation, the source moves on exactly when tx accepts a frame.
C15_VerbatimSelection ==
    /\ [](Registered
            => tx = SourceStream(generators[Selected], Payload(Selected)))
    /\ [][(Registered /\ ~generator_start[Selected])
            => ((generators'[Selected] # generators[Selected])
                   <=> (tx.valid /\ ready))]_vars

C15_Witness ==
    /\ Registered /\ tx.valid /\ ready /\ ~tx.first
    /\ ~generator_start[Selected]
    /\ \E j \in Generators : j # Selected /\ SourceValid(generators[j])

\* C16: a single-cycle start strobe with a value matching source K asserts
\* K's activate input for exactly one cycle, the cycle after the strobe,
\* whatever value does in later cycles.
C16_ActivateOneCycle ==
    [][/\ \A k \in Generators :
             (start /\ Switch(value) = k) => generator_start'[k]
       /\ \A k \in Generators :
             (~start /\ generator_start[k]) => ~generator_start'[k]]_vars

\* C17: stall and tx.valid are never asserted in the same cycle, whatever
\* the inputs do.
C17_StallExcludesValid == ~(stall /\ tx.valid)

C17_Witness ==
    /\ tx.valid /\ start /\ ~stall
    /\ \E j \in Generators : j # Selected /\ generator_start[j]

====
